---- MODULE Spec2Model ----
(***************************************************************************)
(* Planet mesh generation: icosphere subdivision (planet/regions.rs),      *)
(* edge-key adjacency (Region), randomized plate clustering                *)
(* (planet/tectonic_plates.rs), fixed-point position packing               *)
(* (utils/packed_vec3.rs) and the vertex and index lists of build_planet   *)
(* (planet.rs).                                                            *)
(*                                                                         *)
(* Machine integers wider than 31 bits are kept as little-endian sequences *)
(* of 16-bit limbs (usize, u32) or as bit vectors (i64, u128), so that     *)
(* shifts, masks and truncating casts act on the representation.           *)
(***************************************************************************)
EXTENDS Integers, Sequences, FiniteSets, TLC

VARIABLES
    pc,              \* control point of cluster_regions
    regions,         \* regions: &[Region] handed to cluster_regions
    num_plates,      \* num_plates: usize
    plates,          \* plates: Vec<TectonicPlate>
    region_indices,  \* region_indices: Vec<usize>, the queue of unassigned regions
    seeded,          \* loop variable i of the seeding loop
    subdivisions,    \* subdivisions: usize handed to create_regions
    vertices,        \* vertices: Vec<DVec3>
    indices,         \* indices: Vec<u16>
    new_indices,     \* new_indices of the running subdivide call
    midpoint_cache,  \* midpoint_cache of the running subdivide call
    level,           \* subdivide calls completed so far
    chunk,           \* chunks of `indices` the running subdivide call has done
    tris,            \* two index triples handed to Region::new
    tri_regions,     \* the two Regions built from them
    value,           \* value: DVec3 handed to PackedVec3::from
    data,            \* PackedVec3.data: u128
    decoded,         \* the position decoded from data
    planet_vertices, \* vertices: Vec<Vertex> of build_planet
    planet_indices,  \* indices: Vec<u16> of build_planet
    drawn,           \* the outputs rng yielded to the latest statement that drew
    rng,             \* rng: the outputs yielded so far (where kept) and how many
                     \* of them the running call has consumed
    hasher,          \* the RandomState keys of this run's HashSets
    first_run,       \* what the previous run with the same seed returned
    waiting          \* pairs <<r, o>>: o was queued when r was last deferred
                     \* and has not been popped since

planetVars == <<planet_vertices, planet_indices>>

rngVars == <<drawn, rng>>

runVars == <<hasher, first_run>>

clusterVars ==
    <<num_plates, plates, region_indices, seeded, waiting, planetVars, rngVars, runVars>>

meshVars == <<subdivisions, vertices, indices, new_indices, midpoint_cache, level, chunk>>

keyVars == <<tris, tri_regions>>

packVars == <<value, data, decoded>>

vars == <<pc, regions, clusterVars, meshVars, keyVars, packVars>>

----------------------------------------------------------------------------
(* Generic helpers *)

Range(s) == {s[k] : k \in DOMAIN s}

Min2(a, b) == IF a < b THEN a ELSE b

Max2(a, b) == IF a < b THEN b ELSE a

RECURSIVE Pow2(_)
Pow2(n) == IF n = 0 THEN 1 ELSE 2 * Pow2(n - 1)

RECURSIVE Pow4(_)
Pow4(n) == IF n = 0 THEN 1 ELSE 4 * Pow4(n - 1)

\* All orderings of the indices 0..n-1, as sequences.
AllOrders(n) == {[k \in 1..n |-> p[k] - 1] : p \in Permutations(1..n)}

\* Plates rearranged by p with each classification left at its old place.
RearrangedContentsOnly(s, p) ==
    [k \in 1..Len(s) |-> [s[p[k]] EXCEPT !.classification = s[k].classification]]

\* s with its elements rearranged by the ordering p of 1..Len(s).
Rearranged(s, p) == [k \in 1..Len(s) |-> s[p[k]]]

----------------------------------------------------------------------------
(* Machine words as 16-bit limbs, least significant limb first *)

LimbBase == 65536
UsizeLimbs == 4
U32Limbs == 2

\* Bitwise OR of two limb values.
RECURSIVE BitOr(_, _)
BitOr(a, b) ==
    IF a = 0 THEN b
    ELSE IF b = 0 THEN a
    ELSE (IF a % 2 = 1 \/ b % 2 = 1 THEN 1 ELSE 0) + 2 * BitOr(a \div 2, b \div 2)

\* `x as usize` for a u16 x.
AsUsize(x) == [k \in 1..UsizeLimbs |-> IF k = 1 THEN x % LimbBase ELSE 0]

\* `w << 16` on a usize: every limb moves one place up, the top limb is lost.
Shl16(w) == [k \in 1..UsizeLimbs |-> IF k = 1 THEN 0 ELSE w[k - 1]]

\* `v | w` on usize words.
WordOr(v, w) == [k \in 1..UsizeLimbs |-> BitOr(v[k], w[k])]

\* `w as u32`: the low 32 bits.
AsU32(w) == [k \in 1..U32Limbs |-> w[k]]

----------------------------------------------------------------------------
(* Region and its edge keys (planet/regions.rs) *)

\* The edge key without min and max: (a << 16) | b.
EdgeKeyDirected(a, b) == AsU32(WordOr(Shl16(AsUsize(a)), AsUsize(b)))

\* The key of the edge between vertex indices a and b, as in Region::new:
\* ((a.min(b) << 16) | a.max(b)) as u32, on usize operands.
EdgeKey(a, b) ==
    AsU32(WordOr(Shl16(AsUsize(Min2(a, b))), AsUsize(Max2(a, b))))

\* Region::new(indices, vertices): the three corners and the keys ab, bc, ca.
RegionNew(tri, verts) ==
    LET a == tri[1]
        b == tri[2]
        c == tri[3]
    IN  [corners |-> <<verts[a + 1], verts[b + 1], verts[c + 1]>>,
         edges   |-> <<EdgeKey(a, b), EdgeKey(b, c), EdgeKey(c, a)>>]

\* Region::borders with `all` for `any`: every edge of self is shared.
RegionBordersAll(self, other) ==
    \A k \in 1..3 : self.edges[k] \in Range(other.edges)

\* Region::borders: self and other share an edge key.
RegionBorders(self, other) ==
    \E k \in 1..3 : self.edges[k] \in Range(other.edges)

\* The region-building loop of create_regions: one Region per index triple.
RegionsOf(idx, verts) ==
    [k \in 1..(Len(idx) \div 3) |->
        RegionNew(<<idx[3 * k - 2], idx[3 * k - 1], idx[3 * k]>>, verts)]

\* A vertex list of n distinct positions, each named by its own index.
BaseVertices(n) == [k \in 1..n |-> <<"base", k - 1>>]

----------------------------------------------------------------------------
(* Parity-toggle edge sets and plates (planet/tectonic_plates.rs) *)

\* multi_insert_edge with the test inverted: a new value is inserted and at
\* once removed again, a present one stays.
multi_insert_inverted(set, values) == set

\* multi_insert_edge as a plain union: a present value is never removed.
multi_insert_union(set, values) == set \cup Range(values)

\* multi_insert_edge: each value is inserted, or removed if already present.
RECURSIVE multi_insert_edge(_, _)
multi_insert_edge(set, values) ==
    IF values = <<>> THEN set
    ELSE LET val == Head(values)
         IN  multi_insert_edge(IF val \in set THEN set \ {val} ELSE set \cup {val},
                               Tail(values))

\* multi_contains: some value is in the set.
multi_contains(set, values) == \E k \in DOMAIN values : values[k] \in set

\* TectonicPlate::default()
DefaultPlate ==
    [classification    |-> "Oceanic",
     motion_axis       |-> <<0, 0, 0>>,
     contained_regions |-> <<>>,
     plate_edges       |-> {}]

\* The uniform f32 samples of assign_classification, in tenths.
Threshold == 6
Samples == {Threshold, Threshold + 1}

\* assign_classification with >= for >.
assign_classification_ge(plate, sample) ==
    [plate EXCEPT !.classification =
        IF sample >= Threshold THEN "Continental" ELSE "Oceanic"]

\* TectonicPlate::assign_classification with the drawn sample.
assign_classification(plate, sample) ==
    [plate EXCEPT !.classification =
        IF sample > Threshold THEN "Continental" ELSE "Oceanic"]

\* borders with `all` in place of `any`.
PlateBordersAll(self, other) == \A e \in self.plate_edges : e \in other.plate_edges

\* TectonicPlate::borders
PlateBorders(self, other) == \E e \in self.plate_edges : e \in other.plate_edges

\* Absorb without the push onto contained_regions.
AbsorbEdgesOnly(plate, region_index) ==
    [plate EXCEPT
        !.plate_edges = multi_insert_edge(@, regions[region_index + 1].edges)]

\* A plate after it takes region_index: the two statements
\* contained_regions.push(region_index); multi_insert_edge(plate_edges, edges).
Absorb(plate, region_index) ==
    [plate EXCEPT
        !.contained_regions = Append(@, region_index),
        !.plate_edges = multi_insert_edge(@, regions[region_index + 1].edges)]

\* A pop that yields the head of the queue.
PopsHead(q) == q[1]

\* Vec::pop on the queue: the last element.
Last(q) == q[Len(q)]

\* A pop that leaves its element in the queue.
FrontUnpopped(q) == q

\* Vec::pop on the queue: the queue without its last element.
Front(q) == SubSeq(q, 1, Len(q) - 1)

\* FindPlate without the boundary test: the first plate takes every region.
FindAnyPlate(ps, region_index) == IF ps = <<>> THEN 0 ELSE 1

\* FindPlate over the plates in an order the HashSet keys of the run decide:
\* the first hit under even keys, the last under odd ones.
FindPlateHashed(ps, region_index) ==
    LET hits == {k \in DOMAIN ps :
                    multi_contains(ps[k].plate_edges, regions[region_index + 1].edges)}
    IN  IF hits = {} THEN 0
        ELSE IF hasher % 2 = 0 THEN CHOOSE k \in hits : \A j \in hits : k <= j
        ELSE CHOOSE k \in hits : \A j \in hits : j <= k

\* FindPlate that takes the last plate whose boundary meets the region's edges.
FindLastPlate(ps, region_index) ==
    LET hits == {k \in DOMAIN ps :
                    multi_contains(ps[k].plate_edges, regions[region_index + 1].edges)}
    IN  IF hits = {} THEN 0 ELSE CHOOSE k \in hits : \A j \in hits : j <= k

\* The position of the first plate whose boundary meets the region's edges
\* (plates.iter_mut().find(..)), or 0 when there is none.
FindPlate(ps, region_index) ==
    LET hits == {k \in DOMAIN ps :
                    multi_contains(ps[k].plate_edges, regions[region_index + 1].edges)}
    IN  IF hits = {} THEN 0 ELSE CHOOSE k \in hits : \A j \in hits : k <= j

----------------------------------------------------------------------------
(* create_regions: icosphere subdivision (planet/regions.rs) *)

MaxSubdivisions == 5

\* ICOS_INDICES: the 20 triangles of the base icosahedron.
ICOS_INDICES ==
    <<0, 11, 5,  0, 5, 1,  0, 1, 7,  0, 7, 10,  0, 10, 11,
      1, 5, 9,  5, 11, 4,  11, 10, 2,  10, 7, 6,  7, 1, 8,
      3, 9, 4,  3, 4, 2,  3, 2, 6,  3, 6, 8,  3, 8, 9,
      4, 9, 5,  2, 4, 11,  6, 2, 10,  8, 6, 7,  9, 8, 1>>

\* ICOS_VERTICES after `*vertex = vertex.normalize()`: twelve distinct
\* positions, each named by the base vertex it comes from.
ICOS_VERTICES == BaseVertices(12)

U16Modulus == 65536

\* The cache key without the ordering: (a, b) and (b, a) are different keys.
MidpointKeyAsGiven(a, b) == <<a, b>>

\* The cache key of midpoint(a, b): the index pair, smaller index first.
MidpointKey(a, b) == IF a < b THEN <<a, b>> ELSE <<b, a>>

\* The position ((p + q) * 0.5).normalize(), named by the two positions it
\* lies between.
MidPosition(p, q) == <<"mid", {p, q}>>

\* The midpoint closure without cache.insert: every lookup misses.
midpoint_no_insert(a, b, verts, cache) ==
    [mid      |-> Len(verts) % U16Modulus,
     vertices |-> Append(verts, MidPosition(verts[a + 1], verts[b + 1])),
     cache    |-> cache]

\* The midpoint closure of subdivide: the midpoint's index, with the vertex
\* list and the cache as the call leaves them.
midpoint(a, b, verts, cache) ==
    LET key == MidpointKey(a, b)
    IN  IF key \in DOMAIN cache
        THEN [mid |-> cache[key], vertices |-> verts, cache |-> cache]
        ELSE LET mid_index == Len(verts) % U16Modulus
             IN  [mid      |-> mid_index,
                  vertices |-> Append(verts, MidPosition(verts[a + 1], verts[b + 1])),
                  cache    |-> (key :> mid_index) @@ cache]

\* The four triangles with the centre triangle turned round.
ChunkTrianglesTurned(a, b, c, m1, m2, m3) ==
    <<a, m1, m3,  m1, b, m2,  m3, m2, c,  m1, m3, m2>>

\* The four triangles with the first corner triangle in place of the centre one.
ChunkTrianglesNoCentre(a, b, c, m1, m2, m3) ==
    <<a, m1, m3,  m1, b, m2,  m3, m2, c,  a, m1, m3>>

\* The four triangles subdivide emits for the chunk (a, b, c) with midpoints
\* m1 of ab, m2 of bc and m3 of ca.
ChunkTriangles(a, b, c, m1, m2, m3) ==
    <<a, m1, m3,  m1, b, m2,  m3, m2, c,  m1, m2, m3>>

NumChunks == Len(indices) \div 3

\* No create_regions call is under way.
MeshIdle ==
    /\ subdivisions = 0
    /\ vertices = <<>>
    /\ indices = <<>>
    /\ new_indices = <<>>
    /\ midpoint_cache = <<>>
    /\ level = 0
    /\ chunk = 0

\* An rng whose outputs are not kept.
RngOff == [mode |-> "off", log |-> <<>>, pos |-> 0]

\* No cluster_regions or build_planet call is under way.
ClusterIdle ==
    /\ num_plates = 0
    /\ plates = <<>>
    /\ region_indices = <<>>
    /\ seeded = 0
    /\ waiting = {}
    /\ planet_vertices = <<>>
    /\ planet_indices = <<>>
    /\ drawn = <<>>
    /\ rng = RngOff
    /\ hasher = 0
    /\ first_run = <<>>

\* No Region::new call on sampled triples is under way.
KeyIdle ==
    /\ tris = <<>>
    /\ tri_regions = <<>>

\* No PackedVec3 conversion is under way.
PackIdle ==
    /\ value = <<>>
    /\ data = <<>>
    /\ decoded = <<>>

\* create_regions(subdivisions) up to its first subdivide call.
InitMesh ==
    /\ subdivisions \in 0..MaxSubdivisions
    /\ vertices = ICOS_VERTICES
    /\ indices = ICOS_INDICES
    /\ new_indices = <<>>
    /\ midpoint_cache = <<>>
    /\ level = 0
    /\ chunk = 0
    /\ regions = <<>>
    /\ pc = "subdivide"
    /\ ClusterIdle
    /\ KeyIdle
    /\ PackIdle

\* One iteration of `for chunk in indices.chunks_exact(3)` in subdivide.
SubdivideChunk ==
    /\ pc = "subdivide"
    /\ level < subdivisions
    /\ chunk < NumChunks
    /\ LET c0 == indices[3 * chunk + 1]
           c1 == indices[3 * chunk + 2]
           c2 == indices[3 * chunk + 3]
           r1 == midpoint(c0, c1, vertices, midpoint_cache)
           r2 == midpoint(c1, c2, r1.vertices, r1.cache)
           r3 == midpoint(c2, c0, r2.vertices, r2.cache)
       IN  /\ vertices' = r3.vertices
           /\ midpoint_cache' = r3.cache
           /\ new_indices' = new_indices \o ChunkTriangles(c0, c1, c2, r1.mid, r2.mid, r3.mid)
    /\ chunk' = chunk + 1
    /\ UNCHANGED <<pc, regions, clusterVars, subdivisions, indices, level, keyVars, packVars>>

\* The end of a subdivide call: *indices = new_indices.
EndSubdivide ==
    /\ pc = "subdivide"
    /\ level < subdivisions
    /\ chunk = NumChunks
    /\ indices' = new_indices
    /\ new_indices' = <<>>
    /\ midpoint_cache' = <<>>
    /\ chunk' = 0
    /\ level' = level + 1
    /\ UNCHANGED <<pc, regions, clusterVars, subdivisions, vertices, keyVars, packVars>>

\* The region-building loop of create_regions and its return.
CreateRegions ==
    /\ pc = "subdivide"
    /\ level = subdivisions
    /\ regions' = RegionsOf(indices, vertices)
    /\ pc' = "built"
    /\ UNCHANGED <<clusterVars, meshVars, keyVars, packVars>>

NextMesh ==
    \/ SubdivideChunk
    \/ EndSubdivide
    \/ CreateRegions

SpecMesh == InitMesh /\ [][NextMesh]_vars

----------------------------------------------------------------------------
(* Inputs of cluster_regions *)

MaxPlates == 2
MaxFullShuffle == 6
NumSeeds == 24

\* Flat index lists of small meshes, in the layout of ICOS_INDICES.
SingleTriangle == <<0, 1, 2>>
Pillow == <<0, 1, 2,  0, 2, 1>>
Tetrahedron == <<0, 1, 2,  0, 3, 1,  0, 2, 3,  1, 3, 2>>
Bipyramid == <<0, 1, 3,  1, 2, 3,  2, 0, 3,  1, 0, 4,  2, 1, 4,  0, 2, 4>>
TwoPillows == <<0, 1, 2,  0, 2, 1,  3, 4, 5,  3, 5, 4>>

SmallMeshes == {<<>>, SingleTriangle, Pillow, Tetrahedron, Bipyramid, TwoPillows}

\* The (regions, num_plates) pairs cluster_regions is run on: every small mesh
\* with 0..MaxPlates plates, and the base icosahedron with a single plate.
ClusterInputs ==
    {<<RegionsOf(idx, BaseVertices(6)), np>> : idx \in SmallMeshes, np \in 0..MaxPlates}
    \cup {<<RegionsOf(ICOS_INDICES, ICOS_VERTICES), 1>>}

\* A small linear congruential generator standing for the rng stream.
LcgNext(s) == (75 * s + 74) % 65537

\* Fisher-Yates as slice::shuffle does it: position i is swapped with a
\* position drawn from 1..i, for i = 2..Len(seq).
RECURSIVE FisherYates(_, _, _)
FisherYates(seq, i, s) ==
    IF i > Len(seq) THEN seq
    ELSE LET s2 == LcgNext(s)
             j  == (s2 % i) + 1
         IN  FisherYates([seq EXCEPT ![i] = seq[j], ![j] = seq[i]], i + 1, s2)

\* Sampled orderings of 0..n-1 for each list length up to the icosahedron's:
\* the identity, its reverse and the orderings NumSeeds generator seeds lead to.
SampledOrders ==
    [n \in 0..(Len(ICOS_INDICES) \div 3) |->
        {[k \in 1..n |-> k - 1], [k \in 1..n |-> n - k]}
        \cup {FisherYates([k \in 1..n |-> k - 1], 2, seed) : seed \in 1..NumSeeds}]

\* The outcomes of region_indices.shuffle(rng) over the indices 0..n-1: every
\* ordering for short lists, the sampled orderings for longer ones.
ShuffleOutcomes(n) ==
    IF n <= MaxFullShuffle THEN AllOrders(n) ELSE SampledOrders[n]

\* Requeue at the tail, where the next pop takes the same region again.
RequeueAtTail(q, region_index) == Append(q, region_index)

\* Requeue that drops the region.
RequeueDrop(q, region_index) == q

\* Requeue just behind the tail: the region is popped again after one pop.
RequeueNearTail(q, region_index) ==
    IF q = <<>> THEN <<region_index>>
    ELSE SubSeq(q, 1, Len(q) - 1) \o <<region_index, q[Len(q)]>>

\* region_indices.insert(0, region_index)
Requeue(q, region_index) == <<region_index>> \o q

----------------------------------------------------------------------------
(* cluster_regions as a state machine *)

\* rng yields d to the running statement. A generator whose outputs are kept
\* appends d to them; one seeded again as before yields the kept outputs in
\* their order.
Draw(d) ==
    /\ drawn' = d
    /\ rng.mode = "replay" => rng.pos < Len(rng.log) /\ d = rng.log[rng.pos + 1]
    /\ rng' = IF rng.mode = "record" THEN [rng EXCEPT !.log = Append(@, d)]
              ELSE IF rng.mode = "replay" THEN [rng EXCEPT !.pos = @ + 1]
              ELSE rng

\* The pairs of `waiting` once region_index is popped.
Popped(region_index) ==
    {pair \in waiting : pair[1] # region_index /\ pair[2] # region_index}

\* cluster_regions(rng, regions, num_plates) up to its first draw.
InitCluster ==
    /\ plates = [k \in 1..num_plates |-> DefaultPlate]
    /\ region_indices = <<>>
    /\ seeded = 0
    /\ waiting = {}
    /\ planet_vertices = <<>>
    /\ planet_indices = <<>>
    /\ drawn = <<>>
    /\ first_run = <<>>
    /\ pc = "classify"
    /\ MeshIdle
    /\ KeyIdle
    /\ PackIdle

Init ==
    /\ \E input \in ClusterInputs :
          /\ regions = input[1]
          /\ num_plates = input[2]
    /\ rng = RngOff
    /\ hasher = 0
    /\ InitCluster

\* The classification step left out: the plates stay as created and rng is
\* not consulted.
AssignClassificationsUndrawn ==
    /\ pc = "classify"
    /\ pc' = "shuffle"
    /\ UNCHANGED <<regions, clusterVars, meshVars, keyVars, packVars>>

\* plates.iter_mut().for_each(|plate| plate.assign_classification(rng))
AssignClassifications ==
    /\ pc = "classify"
    /\ \E sample \in [1..num_plates -> Samples] :
          /\ Draw(<<"samples", sample>>)
          /\ plates' = [k \in 1..num_plates |-> assign_classification(plates[k], sample[k])]
    /\ pc' = "shuffle"
    /\ UNCHANGED <<regions, num_plates, region_indices, seeded, waiting, planetVars,
                   runVars, meshVars, keyVars, packVars>>

\* region_indices = (0..regions.len()).collect(); region_indices.shuffle(rng)
ShuffleRegions ==
    /\ pc = "shuffle"
    /\ \E order \in ShuffleOutcomes(Len(regions)) :
          /\ Draw(<<"shuffle", order>>)
          /\ region_indices' = order
    /\ pc' = IF num_plates = 0 THEN "grow" ELSE "seed"
    /\ UNCHANGED <<regions, num_plates, plates, seeded, waiting, planetVars,
                   runVars, meshVars, keyVars, packVars>>

\* One iteration of `for i in 0..num_plates`, with a region left to pop.
SeedPlate ==
    /\ pc = "seed"
    /\ region_indices # <<>>
    /\ plates' = [plates EXCEPT ![seeded + 1] = Absorb(@, Last(region_indices))]
    /\ region_indices' = Front(region_indices)
    /\ seeded' = seeded + 1
    /\ pc' = IF seeded + 1 = num_plates THEN "grow" ELSE "seed"
    /\ UNCHANGED <<regions, num_plates, waiting, planetVars, rngVars, runVars,
                   meshVars, keyVars, packVars>>

\* A pop that skips the plate when the queue is empty, in place of unwrap.
SeedSkipsEmpty ==
    /\ pc = "seed"
    /\ region_indices = <<>>
    /\ seeded' = seeded + 1
    /\ pc' = IF seeded + 1 = num_plates THEN "grow" ELSE "seed"
    /\ UNCHANGED <<regions, num_plates, plates, region_indices, waiting, planetVars,
                   rngVars, runVars, meshVars, keyVars, packVars>>

\* region_indices.pop().unwrap() on an empty queue.
SeedPanic ==
    /\ pc = "seed"
    /\ region_indices = <<>>
    /\ pc' = "panic"
    /\ UNCHANGED <<regions, clusterVars, meshVars, keyVars, packVars>>

\* One iteration of the while-let loop in which a plate takes the region.
GrowAssign ==
    /\ pc = "grow"
    /\ region_indices # <<>>
    /\ LET region_index == Last(region_indices)
           k == FindPlate(plates, region_index)
       IN  /\ k # 0
           /\ \E p \in Permutations(1..Len(plates)) :
                 /\ Draw(<<"plates", p>>)
                 /\ plates' = Rearranged([plates EXCEPT ![k] = Absorb(@, region_index)], p)
           /\ waiting' = Popped(region_index)
    /\ region_indices' = Front(region_indices)
    /\ UNCHANGED <<pc, regions, num_plates, seeded, planetVars, runVars,
                   meshVars, keyVars, packVars>>

\* One iteration of the while-let loop in which no plate takes the region.
GrowDefer ==
    /\ pc = "grow"
    /\ region_indices # <<>>
    /\ FindPlate(plates, Last(region_indices)) = 0
    /\ region_indices' = Requeue(Front(region_indices), Last(region_indices))
    /\ waiting' = Popped(Last(region_indices))
                    \cup ({Last(region_indices)} \X Range(Front(region_indices)))
    /\ UNCHANGED <<pc, regions, num_plates, plates, seeded, planetVars, rngVars, runVars,
                   meshVars, keyVars, packVars>>

\* The while-let loop ends on an empty queue and the plates are returned.
Return ==
    /\ pc = "grow"
    /\ region_indices = <<>>
    /\ pc' = "done"
    /\ UNCHANGED <<regions, clusterVars, meshVars, keyVars, packVars>>

Next ==
    \/ AssignClassifications
    \/ ShuffleRegions
    \/ SeedPlate
    \/ SeedPanic
    \/ GrowAssign
    \/ GrowDefer
    \/ Return

Spec == Init /\ [][Next]_vars

\* cluster_regions runs to completion: a sequential loop takes its next step.
FairSpec == Spec /\ WF_vars(Next)

----------------------------------------------------------------------------
(* build_planet: the vertex and index lists (planet.rs) *)

\* `n as u16`
AsU16(n) == n % U16Modulus

\* The packed position `corner.into()`, named by the corner it is made from;
\* its bits are those of FromDVec3.
PackedPosition(corner) == <<"PackedVec3", corner>>

\* Vertex::from_region with two corners only.
from_region_two(region, classification) ==
    [k \in 1..2 |-> [position |-> PackedPosition(region.corners[k]),
                     color    |-> <<0, 0, 1>>,
                     padding  |-> 0]]

\* Vertex::from_region: the three corners in the plate's colour.
from_region(region, classification) ==
    LET color == IF classification = "Continental" THEN <<0, 1, 0>> ELSE <<0, 0, 1>>
    IN  [k \in 1..3 |-> [position |-> PackedPosition(region.corners[k]),
                         color    |-> color,
                         padding  |-> 0]]

\* The inner loop of build_planet: the vertices of the plate's regions from
\* place i of contained_regions on.
RECURSIVE PlateVertices(_, _)
PlateVertices(plate, i) ==
    IF i > Len(plate.contained_regions) THEN <<>>
    ELSE from_region(regions[plate.contained_regions[i] + 1], plate.classification)
            \o PlateVertices(plate, i + 1)

\* The outer loop of build_planet: the vertices of the plates from place k on.
RECURSIVE AllVertices(_, _)
AllVertices(ps, k) ==
    IF k > Len(ps) THEN <<>>
    ELSE PlateVertices(ps[k], 1) \o AllVertices(ps, k + 1)

\* (0..n).collect() with every index one too high.
IndexRangeFromOne(n) == [i \in 1..n |-> i]

\* (0..n).collect()
IndexRange(n) == [i \in 1..n |-> i - 1]

\* build_planet after cluster_regions has returned: the vertex loop and
\* indices = (0..vertices.len() as u16).collect().
BuildPlanet ==
    /\ pc = "done"
    /\ planet_vertices' = AllVertices(plates, 1)
    /\ planet_indices' = IndexRange(AsU16(Len(planet_vertices')))
    /\ pc' = "emitted"
    /\ UNCHANGED <<regions, num_plates, plates, region_indices, seeded, waiting,
                   rngVars, runVars, meshVars, keyVars, packVars>>

NextPlanet ==
    \/ Next
    \/ BuildPlanet

SpecPlanet == Init /\ [][NextPlanet]_vars

----------------------------------------------------------------------------
(* Two runs of build_planet on one seed *)

NumHashers == 2

\* The RandomState keys a run's HashSets may get.
HasherKeys == 0..(NumHashers - 1)

\* The inputs run twice: the meshes of up to four regions with 1..MaxPlates
\* plates, and the bipyramid with one plate.
RepeatInputs ==
    {<<RegionsOf(idx, BaseVertices(6)), np>> :
        idx \in {SingleTriangle, Pillow, Tetrahedron}, np \in 1..MaxPlates}
    \cup {<<RegionsOf(Bipyramid, BaseVertices(6)), 1>>}

\* What a run returns: the plates and the vertex and index lists.
Returned == [plates |-> plates, vertices |-> planet_vertices, indices |-> planet_indices]

InitRepeat ==
    /\ \E input \in RepeatInputs :
          /\ regions = input[1]
          /\ num_plates = input[2]
    /\ rng = [mode |-> "record", log |-> <<>>, pos |-> 0]
    /\ hasher \in HasherKeys
    /\ InitCluster

\* The program is run again on the same inputs and seed: rng yields the same
\* outputs from the start, the HashSets get keys of their own.
RunAgain ==
    /\ pc = "emitted"
    /\ rng.mode = "record"
    /\ first_run' = Returned
    /\ rng' = [rng EXCEPT !.mode = "replay", !.pos = 0]
    /\ hasher' \in HasherKeys
    /\ plates' = [k \in 1..num_plates |-> DefaultPlate]
    /\ region_indices' = <<>>
    /\ seeded' = 0
    /\ waiting' = {}
    /\ planet_vertices' = <<>>
    /\ planet_indices' = <<>>
    /\ drawn' = <<>>
    /\ pc' = "classify"
    /\ UNCHANGED <<regions, num_plates, meshVars, keyVars, packVars>>

NextRepeat ==
    \/ NextPlanet
    \/ RunAgain

SpecRepeat == InitRepeat /\ [][NextRepeat]_vars

----------------------------------------------------------------------------
(* Region::new on sampled index triples *)

\* Sampled u16 vertex indices: the smallest, the largest, and values on both
\* sides of the low byte.
IndexSamples == {0, 1, 2, 256, U16Modulus - 1}

TriangleSamples == IndexSamples \X IndexSamples \X IndexSamples

InitKey ==
    /\ tris \in TriangleSamples \X TriangleSamples
    /\ tri_regions = <<>>
    /\ regions = <<>>
    /\ pc = "new"
    /\ ClusterIdle
    /\ MeshIdle
    /\ PackIdle

\* Region::new on each of the two triples, over a full u16 vertex range.
RegionNewPair ==
    /\ pc = "new"
    /\ tri_regions' = [k \in 1..2 |-> RegionNew(tris[k], BaseVertices(U16Modulus))]
    /\ pc' = "keyed"
    /\ UNCHANGED <<regions, clusterVars, meshVars, tris, packVars>>

NextKey == RegionNewPair

SpecKey == InitKey /\ [][NextKey]_vars

\* The two vertex indices of side k of a triple, in the order Region::new
\* takes them: ab, bc, ca.
SideOf(tri, k) == <<tri[k], tri[(k % 3) + 1]>>

\* C8: the edge key is order-independent and injective on unordered pairs of
\* 16-bit indices: two sides have equal keys exactly if they join the same
\* two indices, and a key is two 16-bit halves, the smaller index in the high
\* half and the larger in the low half.
C8_EdgeKey ==
    pc = "keyed" =>
        \A i, j \in 1..2 : \A k, l \in 1..3 :
            LET p  == SideOf(tris[i], k)
                q  == SideOf(tris[j], l)
                kp == tri_regions[i].edges[k]
                kq == tri_regions[j].edges[l]
            IN  /\ (kp = kq) <=> ({p[1], p[2]} = {q[1], q[2]})
                /\ DOMAIN kp = 1..U32Limbs
                /\ kp[2] = Min2(p[1], p[2])
                /\ kp[1] = Max2(p[1], p[2])
                /\ kp[1] \in 0..(LimbBase - 1)
                /\ kp[2] \in 0..(LimbBase - 1)

C8_Witness ==
    /\ pc = "keyed"
    /\ tris[1] = <<U16Modulus - 1, 0, 256>>
    /\ tris[2] = <<0, U16Modulus - 1, 1>>
    /\ tri_regions[1].edges[1] = tri_regions[2].edges[1]
    /\ tri_regions[1].edges[2] # tri_regions[2].edges[2]

----------------------------------------------------------------------------
(* PackedVec3::from(DVec3) (utils/packed_vec3.rs) *)

\* An f64 coordinate is kept exactly, as sign and magnitude:
\*   [neg, whole, frac, tiny]  stands for  (+/-)(whole + frac / FracDen + eps),
\* with eps = 2^-60 if tiny and 0 otherwise; tiny goes with whole = frac = 0
\* only. Every such number with whole < 2^30 is an f64.
SCALE == 16384
FracBits == 14
SubBits == 2
SubUnits == Pow2(SubBits)
FracDen == SCALE * SubUnits

I64Bits == 64
U128Bits == 128

\* The mask widths (1 << 43) - 1, (1 << 43) - 1 and (1 << 42) - 1.
XMaskBits == 43
YMaskBits == 43
ZMaskBitsAsX == XMaskBits
ZMaskBits == 42

\* The shift of x_packed taken to be its own width: x lands on y's bits.
XShiftAsWidth == XMaskBits

\* The shifts of x_packed and y_packed: 43 + 42 and 42.
XShift == 43 + 42
YShift == 42

\* The coordinate (+/-)(whole + frac / FracDen), and the coordinate (+/-)eps.
Coord(neg, whole, frac) == [neg |-> neg, whole |-> whole, frac |-> frac, tiny |-> FALSE]

Eps(neg) == [neg |-> neg, whole |-> 0, frac |-> 0, tiny |-> TRUE]

\* f64::floor, as the integer it yields.
Floor(c) ==
    IF ~c.neg THEN c.whole
    ELSE IF c.frac = 0 /\ ~c.tiny THEN 0 - c.whole
    ELSE 0 - (c.whole + 1)

\* value - ints in f64, as a numerator over FracDen plus eps if tiny. The
\* difference is exact except for -eps, where 1 - eps rounds to 1.0.
FracPart(c) ==
    IF ~c.neg THEN [num |-> c.frac, tiny |-> c.tiny]
    ELSE IF c.tiny THEN [num |-> FracDen, tiny |-> FALSE]
    ELSE IF c.frac = 0 THEN [num |-> 0, tiny |-> FALSE]
    ELSE [num |-> FracDen - c.frac, tiny |-> FALSE]

\* `decs as i64` for decs = (value - ints) * SCALE: the product is exact and
\* not negative, and the cast drops its fraction.
DecsAsI64(c) == FracPart(c).num \div SubUnits

\* An integer n with |n| < 2^30 as an i64 bit vector in two's complement
\* (bit 0 least significant): the bits from 30 up repeat the sign.
ToI64(n) ==
    [i \in 0..(I64Bits - 1) |->
        IF i < 30 THEN (n \div Pow2(i)) % 2 ELSE IF n < 0 THEN 1 ELSE 0]

\* `x * 16384` on i64 without overflow: the bits move up by 14 places.
MulScale(x) ==
    [i \in 0..(I64Bits - 1) |-> IF i < FracBits THEN 0 ELSE x[i - FracBits]]

\* The carry into bit i of x + y.
RECURSIVE Carry(_, _, _)
Carry(x, y, i) ==
    IF i = 0 THEN 0
    ELSE IF x[i - 1] + y[i - 1] + Carry(x, y, i - 1) >= 2 THEN 1 ELSE 0

\* x + y on i64, wrapping.
Add64(x, y) ==
    LET carry == [i \in 0..(I64Bits - 1) |-> Carry(x, y, i)]
    IN  [i \in 0..(I64Bits - 1) |-> (x[i] + y[i] + carry[i]) % 2]

\* x reinterpreted as u64 and widened to u128 with the mask left out.
WidenToU128(x, width) ==
    [i \in 0..(U128Bits - 1) |-> IF i < I64Bits THEN x[i] ELSE 0]

\* x & ((1 << width) - 1), reinterpreted as u64 and widened to u128.
MaskToU128(x, width) ==
    [i \in 0..(U128Bits - 1) |-> IF i < width THEN x[i] ELSE 0]

\* w << k on u128.
Shl128(w, k) == [i \in 0..(U128Bits - 1) |-> IF i < k THEN 0 ELSE w[i - k]]

\* u | v | w on u128.
Or128(u, v, w) ==
    [i \in 0..(U128Bits - 1) |-> IF u[i] + v[i] + w[i] > 0 THEN 1 ELSE 0]

\* ints.x as i64 * 16384 + decs.x as i64
FixedPoint(c) == Add64(MulScale(ToI64(Floor(c))), ToI64(DecsAsI64(c)))

\* <PackedVec3 as From<DVec3>>::from
FromDVec3(v) ==
    LET x_packed == MaskToU128(FixedPoint(v[1]), XMaskBits)
        y_packed == MaskToU128(FixedPoint(v[2]), YMaskBits)
        z_packed == MaskToU128(FixedPoint(v[3]), ZMaskBits)
    IN  Or128(Shl128(x_packed, XShift), Shl128(y_packed, YShift), z_packed)

\* The unsigned value of the n bits of w from bit lo up.
RECURSIVE BitsValue(_, _, _)
BitsValue(w, lo, n) ==
    IF n = 0 THEN 0 ELSE w[lo] + 2 * BitsValue(w, lo + 1, n - 1)

\* The field widths and lowest bits of x, y and z in the packed word, most
\* significant field first.
FieldBits == <<43, 43, 42>>
FieldLow == <<FieldBits[2] + FieldBits[3], FieldBits[3], 0>>

\* The decoder of one field: the `width` bits from bit `lo` up, sign-extended
\* and divided by 16384, as whole + q / 16384 with 0 <= q < 16384.
DecodeField(w, lo, width) ==
    [whole |-> BitsValue(w, lo + FracBits, width - FracBits - 1)
                 - w[lo + width - 1] * Pow2(width - FracBits - 1),
     q     |-> BitsValue(w, lo, FracBits)]

\* The decoder of the packed word.
Decode(w) == [axis \in 1..3 |-> DecodeField(w, FieldLow[axis], FieldBits[axis])]

\* Sampled coordinates: zero, +/-eps, +/- one sub-unit, values on and off the
\* 1/16384 grid, the limits of the 42-bit and 43-bit fields, and values
\* beyond them.
ZLimit == Pow2(FieldBits[3] - FracBits - 1)
XLimit == Pow2(FieldBits[1] - FracBits - 1)

CoordSamples ==
    {Coord(FALSE, 0, 0), Eps(FALSE), Eps(TRUE),
     Coord(FALSE, 0, 1), Coord(TRUE, 0, 1),
     Coord(FALSE, 3, SubUnits), Coord(TRUE, 3, SubUnits),
     Coord(FALSE, 1, FracDen - 1), Coord(TRUE, 1, FracDen - 1),
     Coord(FALSE, ZLimit - 1, FracDen - 1), Coord(TRUE, ZLimit, 0),
     Coord(FALSE, XLimit - 1, FracDen - 1), Coord(TRUE, XLimit, 0),
     Coord(FALSE, XLimit, 0), Coord(TRUE, XLimit, 1)}

InitPack ==
    /\ value \in CoordSamples \X CoordSamples \X CoordSamples
    /\ data = <<>>
    /\ decoded = <<>>
    /\ regions = <<>>
    /\ pc = "pack"
    /\ ClusterIdle
    /\ MeshIdle
    /\ KeyIdle

\* PackedVec3::from(value)
Pack ==
    /\ pc = "pack"
    /\ data' = FromDVec3(value)
    /\ pc' = "packed"
    /\ UNCHANGED <<regions, clusterVars, meshVars, keyVars, value, decoded>>

\* The consumer of the packed word decodes it.
Unpack ==
    /\ pc = "packed"
    /\ decoded' = Decode(data)
    /\ pc' = "decoded"
    /\ UNCHANGED <<regions, clusterVars, meshVars, keyVars, value, data>>

NextPack ==
    \/ Pack
    \/ Unpack

SpecPack == InitPack /\ [][NextPack]_vars

\* The coordinate's scaled value floor(c * 16384) fits a signed field of
\* `width` bits: -2^(width-1) <= floor(c * 16384) < 2^(width-1).
InRange(c, width) ==
    LET limit == Pow2(width - FracBits - 1)
    IN  /\ Floor(c) >= 0 - limit
        /\ Floor(c) < limit

\* |c - d| < 1/16384 for the coordinate c and the decoded d = whole + q/16384.
ErrorBelowQuantum(c, d) ==
    LET sign  == IF c.neg THEN 0 - 1 ELSE 1
        gap   == sign * c.whole - d.whole
        units == gap * FracDen + sign * c.frac - d.q * SubUnits
    IN  /\ gap \in (0 - 2)..2
        /\ IF ~c.tiny THEN 0 - SubUnits < units /\ units < SubUnits
           ELSE IF c.neg THEN 0 - SubUnits < units /\ units <= SubUnits
           ELSE 0 - SubUnits <= units /\ units < SubUnits

\* C10: for every position whose scaled coordinates fit their fields,
\* decoding the packed word gives back each coordinate with an error below
\* 1/16384.
C10_RoundTrip ==
    pc = "decoded" =>
        ((\A axis \in 1..3 : InRange(value[axis], FieldBits[axis])) =>
            \A axis \in 1..3 : ErrorBelowQuantum(value[axis], decoded[axis]))

C10_Witness ==
    /\ pc = "decoded"
    /\ value = <<Coord(TRUE, XLimit, 0), Coord(FALSE, XLimit - 1, FracDen - 1),
                 Coord(TRUE, ZLimit, 0)>>
    /\ decoded[1] = [whole |-> 0 - XLimit, q |-> 0]
    /\ decoded[2] = [whole |-> XLimit - 1, q |-> SCALE - 1]
    /\ decoded[3] = [whole |-> 0 - ZLimit, q |-> 0]

\* The i64 value x, y or z of each sampled coordinate.
FixedPointOf == [c \in CoordSamples |-> FixedPoint(c)]

\* The lowest and highest bit of the x, y and z field.
LayoutLow == <<85, 42, 0>>
LayoutHigh == <<127, 84, 41>>

LayoutBits(axis) == LayoutLow[axis]..LayoutHigh[axis]

\* Coordinates put in place of one coordinate of `value`: one far outside
\* every field and one inside.
Replacements == {Coord(TRUE, XLimit, 1), Coord(FALSE, 3, SubUnits)}

\* The positions one coordinate of which is replaced: all whose coordinates
\* are zero, -eps, smallest and largest of the z field, or beyond the x field.
ReplacedIn ==
    LET some == {Coord(FALSE, 0, 0), Eps(TRUE), Coord(FALSE, ZLimit - 1, FracDen - 1),
                 Coord(TRUE, ZLimit, 0), Coord(FALSE, XLimit, 0)}
    IN  some \X some \X some

\* C11: the packed word has 128 bits; x lies in bits 85..127, y in bits
\* 42..84 and z in bits 0..41, which are 43, 43 and 42 bits, do not overlap
\* and cover the word; each field holds the low bits of its own coordinate's
\* fixed-point value, whatever the other two coordinates are, and replacing
\* one coordinate changes no bit outside its own field.
C11_Layout ==
    pc = "packed" =>
        /\ DOMAIN data = 0..127
        /\ Cardinality(LayoutBits(1)) = 43
        /\ Cardinality(LayoutBits(2)) = 43
        /\ Cardinality(LayoutBits(3)) = 42
        /\ \A a, b \in 1..3 : a # b => LayoutBits(a) \cap LayoutBits(b) = {}
        /\ LayoutBits(1) \cup LayoutBits(2) \cup LayoutBits(3) = DOMAIN data
        /\ \A axis \in 1..3 : \A i \in LayoutBits(axis) :
              data[i] = FixedPointOf[value[axis]][i - LayoutLow[axis]]
        /\ value \in ReplacedIn =>
              \A axis \in 1..3 : \A c \in Replacements :
                  LET other == FromDVec3([value EXCEPT ![axis] = c])
                  IN  \A i \in DOMAIN data \ LayoutBits(axis) : other[i] = data[i]

C11_Witness ==
    /\ pc = "packed"
    /\ value = <<Coord(TRUE, XLimit, 1), Coord(TRUE, 0, 1), Coord(FALSE, XLimit, 0)>>
    /\ <<Coord(FALSE, XLimit, 0), Eps(TRUE), Coord(TRUE, ZLimit, 0)>> \in ReplacedIn
    /\ \A i \in LayoutBits(2) : data[i] = 1
    /\ \A i \in LayoutBits(3) : data[i] = 0
    /\ data[127] = 0
    /\ \A i \in 99..126 : data[i] = 1

\* The integer hi * 16384 + lo, 0 <= lo < 16384, that floor(c * 16384) is in
\* exact arithmetic.
ScaledFloor(c) ==
    IF ~c.neg THEN [hi |-> c.whole, lo |-> c.frac \div SubUnits]
    ELSE IF c.tiny THEN [hi |-> 0 - 1, lo |-> SCALE - 1]
    ELSE LET q == (c.frac + SubUnits - 1) \div SubUnits
         IN  IF q = 0 THEN [hi |-> 0 - c.whole, lo |-> 0]
             ELSE [hi |-> 0 - c.whole - 1, lo |-> SCALE - q]

\* The same, but one more where c - floor(c) rounds up to 1.0 in f64: for
\* -eps it is 0 and not -1.
ScaledRounded(c) ==
    IF c.neg /\ c.tiny THEN [hi |-> 0, lo |-> 0] ELSE ScaledFloor(c)

\* The integer hi * 16384 + lo reduced modulo 2^width, as bits 0..width-1.
ModField(s, width) ==
    [i \in 0..(width - 1) |->
        IF i < FracBits THEN (s.lo \div Pow2(i)) % 2
        ELSE (s.hi \div Pow2(i - FracBits)) % 2]

\* The integers of s and t differ by a multiple of 2^width.
Congruent(s, t, width) ==
    /\ s.lo = t.lo
    /\ (s.hi - t.hi) % Pow2(width - FracBits) = 0

\* The bits of the field of `axis` in the packed word w.
FieldOf(w, axis) == [i \in 0..(FieldBits[axis] - 1) |-> w[FieldLow[axis] + i]]

FloorFieldOf == [c \in CoordSamples |-> [axis \in 1..3 |->
                    ModField(ScaledFloor(c), FieldBits[axis])]]

RoundedFieldOf == [c \in CoordSamples |-> [axis \in 1..3 |->
                      ModField(ScaledRounded(c), FieldBits[axis])]]

----------------------------------------------------------------------------
(* Mesh and plate predicates used by the properties *)

RegionIds == 0..(Len(regions) - 1)

AllEdgeKeys == UNION {Range(regions[r + 1].edges) : r \in RegionIds}

\* The (region, side) slots that carry edge key e.
Incident(e) == {<<r, k>> \in RegionIds \X (1..3) : regions[r + 1].edges[k] = e}

\* Every edge key is carried by exactly two slots, of two different regions.
ClosedMesh ==
    \A e \in AllEdgeKeys :
        /\ Cardinality(Incident(e)) = 2
        /\ Cardinality({slot[1] : slot \in Incident(e)}) = 2

\* The regions reachable from the set S over shared edges, staying inside `within`.
RECURSIVE Reach(_, _)
Reach(S, within) ==
    LET more == {r \in within \ S :
                    \E t \in S : RegionBorders(regions[r + 1], regions[t + 1])}
    IN  IF more = {} THEN S ELSE Reach(S \cup more, within)

ConnectedSet(S) == S = {} \/ Reach({CHOOSE r \in S : TRUE}, S) = S

ConnectedMesh == RegionIds # {} /\ ConnectedSet(RegionIds)

ValidInput ==
    ClosedMesh /\ ConnectedMesh /\ 1 <= num_plates /\ num_plates <= Len(regions)

Contained(plate) == Range(plate.contained_regions)

Assigned == UNION {Contained(plates[k]) : k \in DOMAIN plates}

Queued == Range(region_indices)

\* How often region index r occurs in the sequence s.
Occurrences(s, r) == Cardinality({k \in DOMAIN s : s[k] = r})

\* The edge keys carried an odd number of times by the regions listed in s.
OddEdges(s) ==
    {e \in AllEdgeKeys :
        Cardinality({<<j, k>> \in (DOMAIN s) \X (1..3) : regions[s[j] + 1].edges[k] = e})
            % 2 = 1}

\* The edge keys with exactly one incident region inside the set S.
OuterBoundary(S) ==
    {e \in AllEdgeKeys : Cardinality({slot \in Incident(e) : slot[1] \in S}) = 1}

\* Some queued region lies in a connected component holding no assigned region.
Starved ==
    /\ pc = "grow"
    /\ \E r \in Queued : Reach({r}, RegionIds) \cap Assigned = {}

\* No queued region meets any plate boundary.
Stuck ==
    /\ pc = "grow"
    /\ region_indices # <<>>
    /\ \A r \in Queued : FindPlate(plates, r) = 0

----------------------------------------------------------------------------
(* Properties of cluster_regions *)

\* C1: when cluster_regions returns for a closed connected mesh with
\* 1 <= num_plates <= region count, every region index occurs exactly once in
\* exactly one plate's contained_regions.
C1_Partition ==
    (pc = "done" /\ ValidInput) =>
        \A r \in RegionIds :
            /\ Cardinality({k \in DOMAIN plates : r \in Contained(plates[k])}) = 1
            /\ \A k \in DOMAIN plates : Occurrences(plates[k].contained_regions, r) <= 1

C1_Witness ==
    /\ pc = "done"
    /\ ValidInput
    /\ Len(regions) = 6
    /\ num_plates = 2
    /\ \A k \in DOMAIN plates : Len(plates[k].contained_regions) = 3

\* C2: in every state of seeding and growth each plate's plate_edges is the
\* set of edge keys occurring an odd number of times among its regions, and
\* on a closed mesh that is the set of edges with exactly one incident region
\* inside the plate.
C2_BoundaryParity ==
    \A k \in DOMAIN plates :
        /\ plates[k].plate_edges = OddEdges(plates[k].contained_regions)
        /\ ClosedMesh => plates[k].plate_edges = OuterBoundary(Contained(plates[k]))

C2_Witness ==
    /\ pc = "grow"
    /\ ClosedMesh
    /\ \E k \in DOMAIN plates :
          /\ Len(plates[k].contained_regions) = 3
          /\ Cardinality(plates[k].plate_edges) = 3

\* C3: every plate is contiguous at every step: its regions are connected
\* under the shares-an-edge relation.
C3_Contiguous ==
    \A k \in DOMAIN plates : ConnectedSet(Contained(plates[k]))

C3_Witness ==
    /\ pc \in {"grow", "done"}
    /\ Len(regions) = 6
    /\ \E k \in DOMAIN plates :
          /\ Len(plates[k].contained_regions) = 4
          /\ \E r, t \in Contained(plates[k]) :
                ~RegionBorders(regions[r + 1], regions[t + 1])

\* C4: on a closed connected mesh with 1 <= num_plates <= region count the
\* growth loop terminates: while the queue is non-empty some queued region
\* meets a plate boundary, and the loop eventually returns.
C4_Terminates ==
    /\ []((pc = "grow" /\ ValidInput /\ region_indices # <<>>) => ~Stuck)
    /\ (ValidInput => <>(pc = "done"))

C4_Witness ==
    /\ pc = "grow"
    /\ ValidInput
    /\ region_indices # <<>>
    /\ FindPlate(plates, Last(region_indices)) = 0

\* C5: once some queued region lies in a component without a seed (or there
\* is no plate at all), cluster_regions never returns or fails: it stays in
\* the growth loop, it reaches a point from which no queued region meets any
\* plate boundary, and from there every step leaves the plates and the set of
\* queued regions as they are.
C5_NeverReturns ==
    /\ [](Starved => [](pc = "grow" /\ region_indices # <<>>))
    /\ (Starved ~> []Stuck)
    /\ [][Stuck => (plates' = plates /\ Queued' = Queued /\ pc' = "grow")]_vars

C5_Witness ==
    /\ Starved
    /\ Stuck
    /\ num_plates = 2
    /\ Assigned # {}
    /\ ~ConnectedMesh

\* C6: with the 20 base-icosahedron regions and num_plates = 1,
\* cluster_regions returns one plate holding all 20 regions, each once, with
\* an empty plate_edges set.
C6_SinglePlate ==
    (pc = "done" /\ Len(regions) = 20 /\ num_plates = 1) =>
        /\ Len(plates) = 1
        /\ Len(plates[1].contained_regions) = 20
        /\ Contained(plates[1]) = 0..19
        /\ plates[1].plate_edges = {}

C6_Witness ==
    /\ pc = "done"
    /\ Len(regions) = 20
    /\ Cardinality(AllEdgeKeys) = 30
    /\ num_plates = 1
    /\ Len(plates) = 1

----------------------------------------------------------------------------
(* Properties of build_planet and of the steps of cluster_regions *)

\* The number of regions in the plates before place k.
RECURSIVE RegionsBefore(_, _)
RegionsBefore(ps, k) ==
    IF k <= 1 THEN 0
    ELSE RegionsBefore(ps, k - 1) + Len(ps[k - 1].contained_regions)

\* C12: build_planet emits three vertices for every region of every plate,
\* in plate order and in the order of contained_regions, so the vertex count
\* is three times the number of regions (61440 for the 20 * 4^5 regions of
\* five subdivisions, which `as u16` leaves as it is); the index list is
\* 0, 1, ..., vertex count - 1.
C12_VerticesAndIndices ==
    pc = "emitted" =>
        /\ Len(planet_vertices) = 3 * RegionsBefore(plates, Len(plates) + 1)
        /\ Len(planet_vertices) = 3 * Len(regions)
        /\ \A k \in DOMAIN plates : \A i \in DOMAIN plates[k].contained_regions :
              LET at     == 3 * (RegionsBefore(plates, k) + i - 1)
                  region == regions[plates[k].contained_regions[i] + 1]
              IN  \A c \in 1..3 :
                      /\ planet_vertices[at + c].position = <<"PackedVec3", region.corners[c]>>
                      /\ planet_vertices[at + c].color =
                            IF plates[k].classification = "Continental"
                            THEN <<0, 1, 0>> ELSE <<0, 0, 1>>
        /\ Len(planet_indices) = Len(planet_vertices)
        /\ \A i \in DOMAIN planet_indices : planet_indices[i] = i - 1
        /\ 3 * (20 * Pow4(5)) = 61440
        /\ AsU16(3 * (20 * Pow4(5))) = 61440

C12_Witness ==
    /\ pc = "emitted"
    /\ Len(regions) = 6
    /\ Len(plates) = 2
    /\ Len(plates[1].contained_regions) = 2
    /\ Len(planet_vertices) = 18
    /\ planet_indices[18] = 17
    /\ planet_vertices[1].color # planet_vertices[18].color

\* C13: a second run on the same inputs and the same seed, in which rng
\* yields the outputs of the first run again and the HashSets may get other
\* keys, consumes exactly those outputs, never lacks a step the first run
\* took, and returns the plate list (order, contained_regions, plate_edges,
\* classifications) and the vertex and index lists of the first run.
C13_Deterministic ==
    rng.mode = "replay" =>
        /\ pc \notin {"emitted", "panic"} => ENABLED NextRepeat
        /\ pc = "emitted" =>
              /\ rng.pos = Len(rng.log)
              /\ first_run.plates = plates
              /\ first_run.vertices = planet_vertices
              /\ first_run.indices = planet_indices

C13_Witness ==
    /\ rng.mode = "replay"
    /\ pc = "emitted"
    /\ hasher = 1
    /\ Len(regions) = 4
    /\ Len(plates) = 2
    /\ Len(rng.log) = 4
    /\ first_run.plates = plates
    /\ Len(first_run.vertices) = 12

\* C14: the classification step draws one sample per plate, and plate k is
\* Continental if its sample is greater than 0.6 (6 tenths) and Oceanic
\* otherwise, a sample of exactly 0.6 included.
C14_Classification ==
    [][(pc = "classify" /\ pc' = "shuffle") =>
          /\ drawn'[1] = "samples"
          /\ DOMAIN drawn'[2] = 1..num_plates
          /\ DOMAIN plates' = 1..num_plates
          /\ \A k \in 1..num_plates :
                /\ drawn'[2][k] > 6 => plates'[k].classification = "Continental"
                /\ drawn'[2][k] <= 6 => plates'[k].classification = "Oceanic"]_vars

C14_Witness ==
    /\ pc = "shuffle"
    /\ num_plates = 2
    /\ drawn = <<"samples", <<6, 7>>>>
    /\ plates[1].classification = "Oceanic"
    /\ plates[2].classification = "Continental"

\* The places of the plates whose plate_edges hold an edge of region r.
Touching(r) ==
    {k \in DOMAIN plates : plates[k].plate_edges \cap Range(regions[r + 1].edges) # {}}

\* C15: a growth step whose popped region meets some plate's plate_edges
\* gives the region to the first such plate in plate order: that plate gets
\* the region appended to contained_regions and its plate_edges toggled by
\* the region's three edges; every other plate is unchanged; the plate list
\* afterwards is a reordering of these plates.
C15_FirstPlateTakes ==
    [][(pc = "grow" /\ region_indices # <<>> /\ Touching(Last(region_indices)) # {}) =>
          LET r     == Last(region_indices)
              first == CHOOSE k \in Touching(r) : \A j \in Touching(r) : k <= j
              edges == Range(regions[r + 1].edges)
              after == [k \in DOMAIN plates |->
                          IF k = first
                          THEN [classification    |-> plates[k].classification,
                                motion_axis       |-> plates[k].motion_axis,
                                contained_regions |-> plates[k].contained_regions \o <<r>>,
                                plate_edges       |-> (plates[k].plate_edges \ edges)
                                                        \cup (edges \ plates[k].plate_edges)]
                          ELSE plates[k]]
          IN  /\ region_indices' = SubSeq(region_indices, 1, Len(region_indices) - 1)
              /\ \E p \in Permutations(DOMAIN plates) :
                    plates' = [k \in DOMAIN plates |-> after[p[k]]]]_vars

C15_Witness ==
    /\ pc = "grow"
    /\ drawn[1] = "plates"
    /\ Len(regions) = 6
    /\ \E k, j \in DOMAIN plates :
          /\ k # j
          /\ Len(plates[k].contained_regions) = 2
          /\ Len(plates[j].contained_regions) = 1
          /\ RegionBorders(regions[plates[k].contained_regions[2] + 1],
                           regions[plates[j].contained_regions[1] + 1])

\* C16: a growth step whose popped region meets no plate's plate_edges puts
\* the region back at the front of the queue: the queue holds the same
\* regions, as many as before, and no plate and no place in the plate list
\* changes; the region is not popped again while a region that was queued
\* with it at that moment has not been popped.
C16_Deferred ==
    /\ [][(pc = "grow" /\ region_indices # <<>> /\ Touching(Last(region_indices)) = {}) =>
             /\ region_indices' = <<Last(region_indices)>>
                                    \o SubSeq(region_indices, 1, Len(region_indices) - 1)
             /\ Range(region_indices') = Range(region_indices)
             /\ Len(region_indices') = Len(region_indices)
             /\ plates' = plates
             /\ pc' = "grow"]_vars
    /\ []((pc = "grow" /\ region_indices # <<>>) =>
             \A pair \in waiting : pair[1] # Last(region_indices))

C16_Witness ==
    /\ pc = "grow"
    /\ Len(regions) = 6
    /\ Len(region_indices) = 3
    /\ Cardinality({pair \in waiting : pair[1] = region_indices[1]}) = 2
    /\ Cardinality(Assigned) = 3
    /\ Touching(region_indices[1]) # {}

\* C17: when the seeding loop is over and no growth step has run, plate i
\* holds exactly the region that is entry i from the end of the shuffled
\* order, so the seeds are distinct; its plate_edges are the three edge keys
\* of that region; and the queue is the rest of the shuffled order,
\* region count - num_plates regions.
C17_Seeded ==
    [][(pc # "grow" /\ pc' = "grow") =>
          LET order == drawn'[2]
              n     == Len(regions)
          IN  /\ drawn'[1] = "shuffle"
              /\ Range(order) = 0..(n - 1)
              /\ Len(order) = n
              /\ Len(plates') = num_plates
              /\ \A i \in 1..num_plates :
                    /\ plates'[i].contained_regions = <<order[n - i + 1]>>
                    /\ plates'[i].plate_edges = Range(regions[order[n - i + 1] + 1].edges)
                    /\ Cardinality(plates'[i].plate_edges) = 3
              /\ Cardinality({plates'[i].contained_regions[1] : i \in 1..num_plates})
                    = num_plates
              /\ region_indices' = SubSeq(order, 1, n - num_plates)
              /\ Len(region_indices') = n - num_plates]_vars

C17_Witness ==
    /\ pc = "grow"
    /\ drawn[1] = "shuffle"
    /\ num_plates = 2
    /\ Len(regions) = 6
    /\ region_indices = SubSeq(drawn[2], 1, 4)
    /\ plates[1].contained_regions = <<drawn[2][6]>>
    /\ plates[2].contained_regions = <<drawn[2][5]>>
    /\ waiting = {}

\* The kind of the i-th output rng has given in the first run.
KindOf(i) == rng.log[i][1]

\* C22 as stated: the permutation of the region indices is the first output
\* taken from rng, the classification samples are the second, and the plate
\* reshuffles follow.
C22_PermutationFirst ==
    /\ Len(rng.log) >= 1 => KindOf(1) = "shuffle"
    /\ Len(rng.log) >= 2 => KindOf(2) = "samples"
    /\ \A i \in 3..Len(rng.log) : KindOf(i) = "plates"

\* C22: cluster_regions takes from rng first the num_plates classification
\* samples, one per plate, then the permutation of all region indices, and
\* only in the growth phase, after both, the plate reshuffles.
C22_SamplesFirst ==
    /\ Len(rng.log) >= 1 =>
          /\ KindOf(1) = "samples"
          /\ DOMAIN rng.log[1][2] = 1..num_plates
    /\ Len(rng.log) >= 2 =>
          /\ KindOf(2) = "shuffle"
          /\ Len(rng.log[2][2]) = Len(regions)
          /\ Range(rng.log[2][2]) = RegionIds
    /\ \A i \in 3..Len(rng.log) : KindOf(i) = "plates"
    /\ rng.mode = "record" =>
          /\ pc = "classify" <=> Len(rng.log) = 0
          /\ pc = "shuffle" <=> Len(rng.log) = 1
          /\ pc \in {"seed", "panic"} => Len(rng.log) = 2
          /\ Len(rng.log) >= 3 => pc \in {"grow", "done", "emitted"}

C22_Witness ==
    /\ rng.mode = "record"
    /\ pc = "done"
    /\ num_plates = 2
    /\ Len(regions) = 4
    /\ Len(rng.log) = 4
    /\ KindOf(1) = "samples"
    /\ KindOf(2) = "shuffle"
    /\ KindOf(4) = "plates"

\* A step of the growth loop that assigns a region, and one that defers it.
AssignStep == pc = "grow" /\ pc' = "grow" /\ Len(region_indices') < Len(region_indices)

DeferStep == pc = "grow" /\ pc' = "grow" /\ Len(region_indices') = Len(region_indices)

\* The plate `after` is the plate `before` with one more region taken.
Grown(before, after) ==
    /\ after.classification = before.classification
    /\ after.motion_axis = before.motion_axis
    /\ Len(after.contained_regions) = Len(before.contained_regions) + 1
    /\ before.contained_regions = Front(after.contained_regions)
    /\ after.plate_edges =
          multi_insert_edge(before.plate_edges, regions[Last(after.contained_regions) + 1].edges)

\* C23: a step of the growth loop that assigns a region takes one plate
\* reshuffle from rng, and after it the plate list is a rearrangement of the
\* list before in which one plate has grown by the region and every other
\* plate is as it was, classification, contained_regions and plate_edges
\* together; a step that defers a region takes nothing from rng and leaves
\* the plate list as it is; the list has num_plates plates throughout, and
\* after the classification step no plate's classification changes.
C23_Reshuffle ==
    [][/\ AssignStep =>
             /\ drawn'[1] = "plates"
             /\ rng.mode = "record" => rng'.log = Append(rng.log, drawn')
             /\ rng.mode = "replay" => rng'.pos = rng.pos + 1
             /\ \E p \in Permutations(1..num_plates) :
                   /\ \A j \in 1..num_plates :
                         plates'[j] = plates[p[j]] \/ Grown(plates[p[j]], plates'[j])
                   /\ Cardinality({j \in 1..num_plates : plates'[j] # plates[p[j]]}) = 1
       /\ DeferStep => plates' = plates /\ rng' = rng /\ drawn' = drawn
       /\ pc # "emitted" => Len(plates') = num_plates /\ Len(plates) = num_plates
       /\ pc \in {"shuffle", "seed", "done"} =>
             \A k \in 1..num_plates : plates'[k].classification = plates[k].classification
      ]_vars

\* Two plates of different classification after an assignment that changed
\* their order, and a deferral behind it.
C23_Witness ==
    /\ pc = "grow"
    /\ rng.mode = "record"
    /\ num_plates = 2
    /\ Len(rng.log) >= 3
    /\ drawn = <<"plates", <<2, 1>>>>
    /\ plates[1].classification # plates[2].classification
    /\ Len(plates[2].contained_regions) = 2
    /\ region_indices # <<>>

\* The places of the plates' contained_regions, as pairs <<plate, place>>.
ContainedPlaces ==
    UNION {{k} \X DOMAIN plates[k].contained_regions : k \in DOMAIN plates}

\* The number of places, in the queue and in the plates, that hold region r.
PlacesOf(r) ==
    Occurrences(region_indices, r)
      + Cardinality({at \in ContainedPlaces : plates[at[1]].contained_regions[at[2]] = r})

\* C24: from the end of the shuffle on, every region index is at exactly
\* one place, once in the queue or once in one plate's contained_regions,
\* nothing else is at any place, and the length of the queue plus the lengths
\* of all contained_regions is the number of regions.
C24_Conservation ==
    pc \in {"seed", "grow", "done", "panic"} =>
        /\ \A r \in RegionIds : PlacesOf(r) = 1
        /\ Queued \subseteq RegionIds
        /\ Assigned \subseteq RegionIds
        /\ Len(region_indices) + Cardinality(ContainedPlaces) = Len(regions)

\* In the growth loop after a deferral, with regions in the queue and a
\* plate that has grown.
C24_Witness ==
    /\ pc = "grow"
    /\ num_plates = 2
    /\ Len(regions) = 6
    /\ waiting # {}
    /\ Len(region_indices) = 2
    /\ \E k \in 1..2 : Len(plates[k].contained_regions) = 3

\* More plates are asked for than there are regions.
TooManyPlates == num_plates > Len(regions)

\* C25: when num_plates is greater than the number of regions, the call
\* ends in the panic of unwrap on None: it reaches the panic, it never
\* enters the growth loop and never returns, at the panic exactly
\* region_count plates hold their one seed and the others hold nothing, and
\* nothing runs after the panic.
C25_Panics ==
    /\ TooManyPlates => <>(pc = "panic")
    /\ [](TooManyPlates =>
            /\ pc \notin {"grow", "done"}
            /\ pc = "panic" =>
                  /\ seeded = Len(regions)
                  /\ region_indices = <<>>
                  /\ \A k \in 1..num_plates :
                        Len(plates[k].contained_regions) = IF k <= Len(regions) THEN 1 ELSE 0)
    /\ [][pc # "panic"]_vars

C25_Witness ==
    /\ pc = "panic"
    /\ Len(regions) = 1
    /\ num_plates = 2
    /\ seeded = 1
    /\ plates[1].contained_regions = <<0>>
    /\ plates[2].contained_regions = <<>>

\* The plates whose plate_edges hold edge key e, and the plates that contain
\* a region incident to e.
HoldersOf(e) == {k \in DOMAIN plates : e \in plates[k].plate_edges}

OwnersOf(e) ==
    {k \in DOMAIN plates : \E slot \in Incident(e) : slot[1] \in Contained(plates[k])}

\* Some region of plate k shares an edge with some region of plate j.
PlatesTouch(k, j) ==
    \E r \in Contained(plates[k]) : \E t \in Contained(plates[j]) :
        RegionBorders(regions[r + 1], regions[t + 1])

\* C26: when cluster_regions has returned on a closed mesh, every edge key
\* is in the plate_edges of no plate, and then its two incident regions are
\* in one plate, or of exactly two plates, and then these are the two plates
\* of its incident regions; and for distinct plates, borders holds exactly
\* if some region of the one shares an edge with some region of the other,
\* in both directions alike.
C26_Borders ==
    (pc = "done" /\ ClosedMesh) =>
        /\ \A e \in AllEdgeKeys :
              /\ Cardinality(HoldersOf(e)) \in {0, 2}
              /\ Cardinality(HoldersOf(e)) = 0 <=> Cardinality(OwnersOf(e)) = 1
              /\ Cardinality(HoldersOf(e)) = 2 =>
                    Cardinality(OwnersOf(e)) = 2 /\ HoldersOf(e) = OwnersOf(e)
        /\ \A k, j \in DOMAIN plates :
              k # j =>
                  /\ PlateBorders(plates[k], plates[j]) <=> PlatesTouch(k, j)
                  /\ PlateBorders(plates[k], plates[j]) <=> PlateBorders(plates[j], plates[k])

\* Two plates of three regions each on the bipyramid: six edge keys lie in
\* both plates' plate_edges, and the plates border each other.
C26_Witness ==
    /\ pc = "done"
    /\ ClosedMesh
    /\ Len(regions) = 6
    /\ num_plates = 2
    /\ Len(plates[1].contained_regions) = 3
    /\ PlateBorders(plates[1], plates[2])
    /\ \E e \in AllEdgeKeys : HoldersOf(e) = {}
    /\ \E e \in AllEdgeKeys : HoldersOf(e) = {1, 2}

----------------------------------------------------------------------------
(* Properties of create_regions *)

\* The distinct edges (unordered index pairs) of the triangles in idx.
EdgesOf(idx) ==
    UNION {{{idx[3 * k - 2], idx[3 * k - 1]},
            {idx[3 * k - 1], idx[3 * k]},
            {idx[3 * k], idx[3 * k - 2]}} : k \in 1..(Len(idx) \div 3)}

\* The regions other than r that region r borders.
Neighbours(r) ==
    {t \in RegionIds \ {r} : RegionBorders(regions[r + 1], regions[t + 1])}

\* C7: for n subdivisions create_regions ends with 10*4^n + 2 vertices and
\* 20*4^n triangles and regions; every subdivide call starts from the counts
\* of its level, multiplies the triangle count by 4 and adds one vertex per
\* distinct edge of the level it starts from.
C7_Counts ==
    /\ (pc = "subdivide" /\ chunk = 0) =>
          /\ Len(vertices) = 10 * Pow4(level) + 2
          /\ Len(indices) = 3 * 20 * Pow4(level)
    /\ (pc = "subdivide" /\ level < subdivisions /\ chunk = NumChunks) =>
          /\ Len(new_indices) = 4 * Len(indices)
          /\ Len(vertices) = 10 * Pow4(level) + 2 + Cardinality(EdgesOf(indices))
    /\ pc = "built" =>
          /\ Len(vertices) = 10 * Pow4(subdivisions) + 2
          /\ Len(indices) = 3 * 20 * Pow4(subdivisions)
          /\ Len(regions) = 20 * Pow4(subdivisions)

C7_Witness ==
    /\ pc = "built"
    /\ subdivisions = 2
    /\ level = subdivisions
    /\ Len(vertices) = 162
    /\ Len(regions) = 320

\* C9: on the base icosahedron (no subdivision) each of the 20 regions
\* borders exactly 3 other regions.
C9_ThreeNeighbours ==
    (pc = "built" /\ subdivisions = 0) =>
        /\ Len(regions) = 20
        /\ \A r \in RegionIds : Cardinality(Neighbours(r)) = 3

C9_Witness ==
    /\ pc = "built"
    /\ subdivisions = 0
    /\ Len(regions) = 20
    /\ \E r, t \in RegionIds : r # t /\ RegionBorders(regions[r + 1], regions[t + 1])

\* The corners of triangle k (from 1) of the flat index list idx.
Triangle(idx, k) == <<idx[3 * k - 2], idx[3 * k - 1], idx[3 * k]>>

\* The directed edges (u, v) of the triangles in idx, each with its triangle.
DirectedSlots(idx) ==
    UNION {{<<idx[3 * k - 2], idx[3 * k - 1], k>>,
            <<idx[3 * k - 1], idx[3 * k], k>>,
            <<idx[3 * k], idx[3 * k - 2], k>>} : k \in 1..(Len(idx) \div 3)}

\* Every directed edge (u, v) lies in exactly one triangle of idx, and its
\* reverse (v, u) in exactly one, which is another triangle.
Wound(idx) ==
    LET slots == DirectedSlots(idx)
        edges == {<<t[1], t[2]>> : t \in slots}
    IN  /\ Cardinality(slots) = Len(idx)
        /\ Cardinality(edges) = Len(idx)
        /\ \A e \in edges : <<e[2], e[1]>> \in edges
        /\ \A k \in 1..(Len(idx) \div 3) :
              Cardinality(Range(Triangle(idx, k))) = 3

\* A subdivide call has done its last chunk and not yet replaced `indices`.
LevelDone == pc = "subdivide" /\ level < subdivisions /\ chunk = NumChunks

\* C18: a subdivide call replaces triangle k = (a, b, c) of `indices` by the
\* four triangles (a, m_ab, m_ca), (m_ab, b, m_bc), (m_ca, m_bc, c),
\* (m_ab, m_bc, m_ca) at places 12(k-1)+1 .. 12k of new_indices, m_xy being
\* the index of the vertex midway between x and y; and the mesh keeps its
\* winding: before and after every call each directed edge lies in exactly
\* one triangle and its reverse in exactly one other.
C18_FourTriangles ==
    /\ LevelDone =>
          /\ Len(new_indices) = 4 * Len(indices)
          /\ \A k \in 1..NumChunks :
                LET a    == indices[3 * k - 2]
                    b    == indices[3 * k - 1]
                    c    == indices[3 * k]
                    out  == [j \in 1..12 |-> new_indices[12 * (k - 1) + j]]
                    m_ab == out[2]
                    m_bc == out[6]
                    m_ca == out[3]
                IN  /\ out = <<a, m_ab, m_ca,  m_ab, b, m_bc,
                               m_ca, m_bc, c,  m_ab, m_bc, m_ca>>
                    /\ vertices[m_ab + 1] = <<"mid", {vertices[a + 1], vertices[b + 1]}>>
                    /\ vertices[m_bc + 1] = <<"mid", {vertices[b + 1], vertices[c + 1]}>>
                    /\ vertices[m_ca + 1] = <<"mid", {vertices[c + 1], vertices[a + 1]}>>
    /\ (pc = "subdivide" /\ chunk = 0) => Wound(indices)

C18_Witness ==
    /\ pc = "subdivide"
    /\ chunk = 0
    /\ level = 2
    /\ Len(indices) = 3 * 320
    /\ <<indices[1], indices[2], indices[3]>> # <<0, 11, 5>>
    /\ Wound(indices)

\* The canonical pair of an edge: smaller index first.
PairOf(edge) ==
    LET u == CHOOSE x \in edge : \A y \in edge : x <= y
        v == CHOOSE x \in edge : \A y \in edge : y <= x
    IN  <<u, v>>

\* C19: within a subdivide call every edge gets its midpoint once. When the
\* call has done its last chunk the cache holds one entry per edge of the
\* level, under the pair with the smaller index first; the entries of distinct
\* edges are distinct vertex indices, each the index of the vertex midway
\* between the edge's ends; a lookup of (a, b) and of (b, a) returns that
\* same index and appends nothing; every triangle's three midpoint indices
\* are the cache entries of its sides, so two triangles sharing an edge get
\* the same one. In every chunk step the vertex list grows by exactly the
\* number of new cache entries.
C19_MidpointOnce ==
    /\ [](LevelDone =>
            /\ DOMAIN midpoint_cache = {PairOf(e) : e \in EdgesOf(indices)}
            /\ Cardinality({midpoint_cache[key] : key \in DOMAIN midpoint_cache})
                  = Cardinality(DOMAIN midpoint_cache)
            /\ \A key \in DOMAIN midpoint_cache :
                  LET ab == midpoint(key[1], key[2], vertices, midpoint_cache)
                      ba == midpoint(key[2], key[1], vertices, midpoint_cache)
                  IN  /\ ab.mid = midpoint_cache[key]
                      /\ ba.mid = ab.mid
                      /\ ab.vertices = vertices
                      /\ ba.vertices = vertices
                      /\ vertices[ab.mid + 1]
                            = <<"mid", {vertices[key[1] + 1], vertices[key[2] + 1]}>>
            /\ \A k \in 1..NumChunks :
                  LET t == Triangle(indices, k)
                  IN  /\ new_indices[12 * (k - 1) + 2] = midpoint_cache[PairOf({t[1], t[2]})]
                      /\ new_indices[12 * (k - 1) + 6] = midpoint_cache[PairOf({t[2], t[3]})]
                      /\ new_indices[12 * (k - 1) + 3] = midpoint_cache[PairOf({t[3], t[1]})])
    /\ [][(pc = "subdivide" /\ chunk' = chunk + 1) =>
            /\ Len(vertices') - Len(vertices)
                  = Cardinality(DOMAIN midpoint_cache') - Cardinality(DOMAIN midpoint_cache)
            /\ Len(vertices') - Len(vertices)
                  = Cardinality({PairOf({indices[3 * chunk + 1], indices[3 * chunk + 2]}),
                                 PairOf({indices[3 * chunk + 2], indices[3 * chunk + 3]}),
                                 PairOf({indices[3 * chunk + 3], indices[3 * chunk + 1]})}
                                \ DOMAIN midpoint_cache)]_vars

C19_Witness ==
    /\ LevelDone
    /\ level = 1
    /\ Cardinality(DOMAIN midpoint_cache) = 120
    /\ Len(vertices) = 162
    /\ \E j, k \in 1..NumChunks :
          /\ j # k
          /\ new_indices[12 * (j - 1) + 2] = new_indices[12 * (k - 1) + 3]

\* For the regions lo..hi (places in `regions`): each edge key they carry,
\* with the set of region indices that carry it.
RECURSIVE OwnersIn(_, _)
OwnersIn(lo, hi) ==
    IF lo = hi
    THEN [e \in Range(regions[lo].edges) |-> {lo - 1}]
    ELSE LET half == (lo + hi) \div 2
             f    == OwnersIn(lo, half)
             g    == OwnersIn(half + 1, hi)
         IN  [e \in DOMAIN f \cup DOMAIN g |->
                (IF e \in DOMAIN f THEN f[e] ELSE {})
                    \cup (IF e \in DOMAIN g THEN g[e] ELSE {})]

\* C20: the regions create_regions returns form a closed mesh at every
\* level: each region has three different edge keys, every edge key is
\* carried by exactly two regions, no two regions share more than one key,
\* and the two regions of a key border each other; up to 320 regions it is
\* checked pair by pair that two distinct regions border each other exactly
\* if they are the two regions of some key.
C20_Closed ==
    pc = "built" =>
        LET owners == OwnersIn(1, Len(regions))
            pairs  == {owners[e] : e \in DOMAIN owners}
        IN  /\ \A r \in RegionIds : Cardinality(Range(regions[r + 1].edges)) = 3
            /\ \A e \in DOMAIN owners : Cardinality(owners[e]) = 2
            /\ Cardinality(pairs) = Cardinality(DOMAIN owners)
            /\ 2 * Cardinality(DOMAIN owners) = 3 * Len(regions)
            /\ \A pair \in pairs : \A r, t \in pair :
                  r # t => RegionBorders(regions[r + 1], regions[t + 1])
            /\ Len(regions) <= 20 * Pow4(2) =>
                  \A r, t \in RegionIds :
                      r # t => (RegionBorders(regions[r + 1], regions[t + 1])
                                    <=> {r, t} \in pairs)

C20_Witness ==
    /\ pc = "built"
    /\ subdivisions = 3
    /\ Len(regions) = 1280
    /\ Cardinality(AllEdgeKeys) = 1920

====
